---- MODULE Spec2Model ----
(***************************************************************************)
(* Model of the tooltip placement utilities of redux-tooltip               *)
(* (src/src/utils.js): position, placement, complete, intersection,        *)
(* strip, amend, overDirs and adjust.                                      *)
(*                                                                         *)
(* The functions are pure functions of their arguments and of the DOM      *)
(* snapshot they read.  A state of the model is one call: the function     *)
(* called (op), its arguments (arg), the DOM snapshot (dom) and, once the  *)
(* call has run (pc = "done"), what it returned (ret).                     *)
(*                                                                         *)
(* JavaScript values.  A number, NaN, undefined and a string of the form   *)
(* `${n}px` are records [k, nan, v]; k is what typeof yields.              *)
(* Lengths are whole pixels; element widths and heights are drawn from     *)
(* even numbers so that `x * 0.5` is exact.  An object is a record over    *)
(* its possible fields; a field the object does not have reads Undefined,  *)
(* as it does in JavaScript.                                               *)
(***************************************************************************)
EXTENDS Integers, Sequences, FiniteSets, TLC

VARIABLES pc, op, arg, dom, ret

vars == <<pc, op, arg, dom, ret>>

----------------------------------------------------------------------------
(* JavaScript values and arithmetic *)

Undefined == [k |-> "undefined", nan |-> FALSE, v |-> 0]

NaN == [k |-> "number", nan |-> TRUE, v |-> 0]

Num(n) == [k |-> "number", nan |-> FALSE, v |-> n]

\* the string `${n}px`
Px(n) == [k |-> "string", nan |-> FALSE, v |-> n]

\* the string "NaNpx"
NaNPx == [k |-> "string", nan |-> TRUE, v |-> 0]

\* typeof x === 'number' (true of NaN as well)
IsNumber(x) == x.k = "number"

\* x is a number other than NaN
IsReal(x) == x.k = "number" /\ ~x.nan

\* x + y on numbers and undefined (undefined converts to NaN)
JsAdd(x, y) == IF IsReal(x) /\ IsReal(y) THEN Num(x.v + y.v) ELSE NaN

\* x - y
JsSub(x, y) == IF IsReal(x) /\ IsReal(y) THEN Num(x.v - y.v) ELSE NaN

\* x * 0.5 with the factor forgotten
JsWhole(x) == IF IsReal(x) THEN Num(x.v) ELSE NaN

\* x * 0.5, exact on the even numbers the model measures
JsHalf(x) == IF IsReal(x) THEN Num(x.v \div 2) ELSE NaN

\* x < y : false as soon as one side is NaN or undefined
JsLess(x, y) == IsReal(x) /\ IsReal(y) /\ x.v < y.v

\* Math.max(x, y)
JsMax(x, y) ==
  IF IsReal(x) /\ IsReal(y) THEN Num(IF x.v >= y.v THEN x.v ELSE y.v) ELSE NaN

\* Math.min(x, y)
JsMin(x, y) ==
  IF IsReal(x) /\ IsReal(y) THEN Num(IF x.v <= y.v THEN x.v ELSE y.v) ELSE NaN

\* the template literal `${x}px` of a number
Template(x) == IF x.nan THEN NaNPx ELSE Px(x.v)

\* parseFloat(s.replace('px', '')) of a string `${n}px` or "NaNpx"
ParseFloat(s) == IF s.nan THEN NaN ELSE Num(s.v)

\* a || b on numbers: a unless it is 0
OrElse(a, b) == IF a # 0 THEN a ELSE b

----------------------------------------------------------------------------
(* DOM elements.  An element is its bounding client rectangle; the result  *)
(* of a lookup that finds nothing is NoElement.                            *)

NoElement == [exists |-> FALSE, top |-> 0, left |-> 0, width |-> 0, height |-> 0]

Element(t, l, w, h) ==
  [exists |-> TRUE, top |-> t, left |-> l, width |-> w, height |-> h]

\* an object with none of the rectangle fields
EmptyRect ==
  [top |-> Undefined, left |-> Undefined, right |-> Undefined,
   bottom |-> Undefined, width |-> Undefined, height |-> Undefined]

\* el.getBoundingClientRect()
getBoundingClientRect(el) ==
  [top |-> Num(el.top), left |-> Num(el.left),
   right |-> Num(el.left + el.width), bottom |-> Num(el.top + el.height),
   width |-> Num(el.width), height |-> Num(el.height)]

dimension(el) ==
  LET rect == getBoundingClientRect(el)
  IN  [width |-> rect.width, height |-> rect.height]

position(el, d) ==
  LET pos == IF el.exists THEN getBoundingClientRect(el) ELSE EmptyRect
      winTop == OrElse(d.pageYOffset, d.docScrollTop) - d.clientTop
      winLeft == OrElse(d.pageXOffset, d.docScrollLeft) - d.clientLeft
  IN  [top |-> JsAdd(pos.top, Num(winTop)),
       left |-> JsAdd(pos.left, Num(winLeft)),
       right |-> JsAdd(pos.right, Num(winLeft)),
       bottom |-> JsAdd(pos.bottom, Num(winTop)),
       width |-> pos.width,
       height |-> pos.height]

\* document.getElementById(id)
getElementById(id, d) == IF id \in DOMAIN d.ids THEN d.ids[id] ELSE NoElement

----------------------------------------------------------------------------
(* placement *)

gap == 12

\* originRect reading a plain object's own top, left, width and height
originRectFields(origin, d) ==
  IF origin.kind = "element" THEN position(origin.el, d)
  ELSE IF origin.kind = "id" THEN position(getElementById(origin.id, d), d)
  ELSE [top |-> origin.top, right |-> JsAdd(origin.left, origin.width),
        bottom |-> JsAdd(origin.top, origin.height),
        left |-> origin.left, width |-> origin.width, height |-> origin.height]

\* the rectangle placement() works from: pos after lines 43-49
originRect(origin, d) ==
  IF origin.kind = "element" THEN position(origin.el, d)
  ELSE IF origin.kind = "id" THEN position(getElementById(origin.id, d), d)
  ELSE [top |-> origin.y, right |-> origin.x, bottom |-> origin.y,
        left |-> origin.x, width |-> Num(0), height |-> Num(0)]

placement(place, content, origin, d) ==
  LET dim == dimension(content)
      pos == originRect(origin, d)
      centredLeft ==
        Template(JsSub(JsAdd(pos.left, JsHalf(pos.width)), JsHalf(dim.width)))
      centredTop ==
        Template(JsSub(JsAdd(pos.top, JsHalf(pos.height)), JsHalf(dim.height)))
      offset0 == [width |-> dim.width, height |-> dim.height,
                  top |-> Undefined, left |-> Undefined,
                  right |-> Undefined, bottom |-> Undefined]
      offset1 ==
        IF place \in {"top", "bottom"} THEN [offset0 EXCEPT !.left = centredLeft]
        ELSE IF place \in {"left", "right"} THEN [offset0 EXCEPT !.top = centredTop]
        ELSE offset0
  IN  IF place = "top"
        THEN [offset1 EXCEPT !.top = Template(JsSub(JsSub(pos.top, dim.height), Num(gap)))]
      ELSE IF place = "right"
        THEN [offset1 EXCEPT !.left = Template(JsAdd(pos.right, Num(gap)))]
      ELSE IF place = "bottom"
        THEN [offset1 EXCEPT !.top = Template(JsAdd(JsAdd(pos.top, pos.height), Num(gap)))]
      ELSE IF place = "left"
        THEN [offset1 EXCEPT !.left = Template(JsSub(JsSub(pos.left, dim.width), Num(gap)))]
      ELSE offset1

----------------------------------------------------------------------------
(* complete *)

DIRS == <<"top", "right", "bottom", "left">>

\* dir.indexOf(d) === -1
NotIn(d, dir) == \A i \in 1..Len(dir) : dir[i] # d

\* missings with the filter dropped: every direction is appended
missingsUnfiltered(dir) == DIRS

\* DIRS.filter(d => dir.indexOf(d) === -1)
missings(dir) == SelectSeq(DIRS, LAMBDA d : NotIn(d, dir))

\* dir is [isString |-> TRUE, str |-> s] or [isString |-> FALSE, items |-> list]
complete(dir) ==
  LET list == IF dir.isString THEN <<dir.str>> ELSE dir.items
  IN  list \o missings(list)

----------------------------------------------------------------------------
(* intersection, strip, amend *)

\* intersection with the width and height of disjoint areas clamped to 0
intersectionClamped(area1, area2) ==
  LET top == JsMax(area1.top, area2.top)
      right == JsMin(JsAdd(area1.left, area1.width), JsAdd(area2.left, area2.width))
      bottom == JsMin(JsAdd(area1.top, area1.height), JsAdd(area2.top, area2.height))
      left == JsMax(area1.left, area2.left)
  IN  [top |-> top, right |-> right, bottom |-> bottom, left |-> left,
       height |-> JsMax(JsSub(bottom, top), Num(0)),
       width |-> JsMax(JsSub(right, left), Num(0))]

intersection(area1, area2) ==
  LET top == JsMax(area1.top, area2.top)
      right == JsMin(JsAdd(area1.left, area1.width), JsAdd(area2.left, area2.width))
      bottom == JsMin(JsAdd(area1.top, area1.height), JsAdd(area2.top, area2.height))
      left == JsMax(area1.left, area2.left)
  IN  [top |-> top, right |-> right, bottom |-> bottom, left |-> left,
       height |-> JsSub(bottom, top), width |-> JsSub(right, left)]

scrollOffset(d) ==
  [top |-> OrElse(OrElse(d.docScrollTop, d.docScrollTop), d.bodyScrollTop),
   left |-> OrElse(OrElse(d.docScrollLeft, d.docScrollLeft), d.bodyScrollLeft)]

contentArea(d) ==
  [top |-> Num(scrollOffset(d).top), left |-> Num(scrollOffset(d).left),
   height |-> Num(d.innerHeight), width |-> Num(d.innerWidth),
   right |-> Undefined, bottom |-> Undefined]

STRIP_FOR == {"top", "left", "right", "bottom", "width", "height"}

strip(obj) ==
  [prop \in DOMAIN obj |->
     IF prop \in STRIP_FOR /\ obj[prop].k = "string"
       THEN ParseFloat(obj[prop]) ELSE obj[prop]]

\* amend deriving right and bottom whenever width and height are known
amendAlways(area) ==
  LET data0 == strip(area)
      data1 == IF ~IsNumber(data0.top) THEN [data0 EXCEPT !.top = Num(0)] ELSE data0
      data2 == IF ~IsNumber(data1.left) THEN [data1 EXCEPT !.left = Num(0)] ELSE data1
      data3 == IF IsNumber(data2.width)
                 THEN [data2 EXCEPT !.right = JsAdd(data2.left, data2.width)]
                 ELSE data2
  IN  IF IsNumber(data3.height)
        THEN [data3 EXCEPT !.bottom = JsAdd(data3.top, data3.height)]
        ELSE data3

amend(area) ==
  LET data0 == strip(area)
      data1 == IF ~IsNumber(data0.top) THEN [data0 EXCEPT !.top = Num(0)] ELSE data0
      data2 == IF ~IsNumber(data1.left) THEN [data1 EXCEPT !.left = Num(0)] ELSE data1
      data3 == IF ~IsNumber(data2.right) /\ IsNumber(data2.width)
                 THEN [data2 EXCEPT !.right = JsAdd(data2.left, data2.width)]
                 ELSE data2
  IN  IF ~IsNumber(data3.bottom) /\ IsNumber(data3.height)
        THEN [data3 EXCEPT !.bottom = JsAdd(data3.top, data3.height)]
        ELSE data3

----------------------------------------------------------------------------
(* overDirs *)

\* referenceArea with the container taking the place of the viewport
referenceAreaContainer(el, d) ==
  IF el.exists THEN position(el, d) ELSE amend(contentArea(d))

\* el is the container element, or NoElement when the caller passed a falsy
\* value (el && typeof el === 'object' fails)
referenceArea(el, d) ==
  LET area == amend(contentArea(d))
  IN  IF el.exists THEN intersection(area, position(el, d)) ELSE area

\* x <= y
JsLessEq(x, y) == IsReal(x) /\ IsReal(y) /\ x.v <= y.v

\* overDirs counting an edge that touches the area's edge as overflowing
overDirsInclusive(tip0, el, d) ==
  LET tip == amend(tip0)
      area == referenceArea(el, d)
  IN  (IF JsLessEq(tip.top, area.top) THEN <<"top">> ELSE <<>>)
      \o (IF JsLessEq(area.right, tip.right) THEN <<"right">> ELSE <<>>)
      \o (IF JsLessEq(area.bottom, tip.bottom) THEN <<"bottom">> ELSE <<>>)
      \o (IF JsLessEq(tip.left, area.left) THEN <<"left">> ELSE <<>>)

overDirs(tip0, el, d) ==
  LET tip == amend(tip0)
      area == referenceArea(el, d)
  IN  (IF JsLess(tip.top, area.top) THEN <<"top">> ELSE <<>>)
      \o (IF JsLess(area.right, tip.right) THEN <<"right">> ELSE <<>>)
      \o (IF JsLess(area.bottom, tip.bottom) THEN <<"bottom">> ELSE <<>>)
      \o (IF JsLess(tip.left, area.left) THEN <<"left">> ELSE <<>>)

----------------------------------------------------------------------------
(* adjust *)

\* A string given as props.place is a sequence of tokens: a direction word,
\* "," or " ".

\* index of the first "," of s, 0 when there is none
FirstComma(s) ==
  IF \E i \in 1..Len(s) : s[i] = ","
    THEN CHOOSE i \in 1..Len(s) : s[i] = "," /\ \A j \in 1..(i - 1) : s[j] # ","
    ELSE 0

RECURSIVE split(_)
\* s.split(',')
split(s) ==
  LET i == FirstComma(s)
  IN  IF i = 0 THEN <<s>>
      ELSE <<SubSeq(s, 1, i - 1)>> \o split(SubSeq(s, i + 1, Len(s)))

RECURSIVE trimLeft(_)
trimLeft(s) == IF s # <<>> /\ Head(s) = " " THEN trimLeft(Tail(s)) ELSE s

RECURSIVE trimRight(_)
trimRight(s) ==
  IF s # <<>> /\ s[Len(s)] = " " THEN trimRight(SubSeq(s, 1, Len(s) - 1)) ELSE s

\* p.trim(), as the string it leaves: a word, "" or words with spaces between
trim(s) ==
  LET t == trimRight(trimLeft(s))
  IN  IF t = <<>> THEN "" ELSE IF Len(t) = 1 THEN t[1] ELSE "other"

\* lines 197-200: a string place is split at its commas and trimmed
normalize(place) ==
  IF place.isString
    THEN LET parts == split(place.str)
         IN  [i \in 1..Len(parts) |-> trim(parts[i])]
    ELSE place.items

\* priority with the auto option ignored
priorityNoAuto(props) == normalize(props.place)

\* lines 201-203
priority(props) ==
  LET place == normalize(props.place)
  IN  IF props.auto THEN complete([isString |-> FALSE, items |-> place]) ELSE place

\* props.origin || props.el
originOrEl(props) == IF props.origin.kind # "none" THEN props.origin ELSE props.el

\* within && within()
withinEl(props) == IF props.within.kind = "function" THEN props.within.returns ELSE NoElement

NoResult == [defined |-> FALSE]

\* remember overwriting what it remembered at every attempt
rememberLast(first, pos, current) ==
  [defined |-> TRUE, offset |-> pos, place |-> current]

\* lines 210-212: the first attempt is remembered, later ones are not
remember(first, pos, current) ==
  IF ~first.defined THEN [defined |-> TRUE, offset |-> pos, place |-> current]
  ELSE first

RECURSIVE tryLoop(_, _, _, _, _, _, _)
\* the while loop of lines 207-218: tries is what is left to try, first the
\* remembered first attempt, tried the places tried so far (one placement
\* and one overDirs call each)
tryLoop(tries, first, tried, content, origin, props, d) ==
  IF Len(tries) = 0 THEN [value |-> first, tried |-> tried, tries |-> tries]
  ELSE
    LET current == Head(tries)
        pos == placement(current, content, origin, d)
        first1 == remember(first, pos, current)
        dirs == overDirs(pos, withinEl(props), d)
    IN  IF Len(dirs) = 0
          THEN [value |-> [defined |-> TRUE, offset |-> pos, place |-> current],
                tried |-> Append(tried, current), tries |-> Tail(tries)]
          ELSE tryLoop(Tail(tries), first1, Append(tried, current),
                       content, origin, props, d)

\* list in reverse order
Reverse(list) == [i \in 1..Len(list) |-> list[Len(list) + 1 - i]]

\* adjustRun taking the tries from the end of the list (pop for shift)
adjustRunFromEnd(content, props, d) ==
  [given |-> props.place]
    @@ tryLoop(Reverse(priority(props)), NoResult, <<>>, content, originOrEl(props), props, d)

\* adjust together with the places it tried, in order, the array tries as
\* the loop leaves it and the place it was given
adjustRun(content, props, d) ==
  [given |-> props.place]
    @@ tryLoop(priority(props), NoResult, <<>>, content, originOrEl(props), props, d)

\* line 206: tries is a copy, so the shifts leave the array the caller passed
\* as props.place as it was
placeAfter(props, run) == props.place

adjust(content, props, d) == adjustRun(content, props, d).value

----------------------------------------------------------------------------
(* Inputs *)

\* longest list of places handed to adjust
MaxPlace == 2

\* longest list of directions handed to complete
MaxDirs == 4

\* lists of at most n members of S
RECURSIVE ListsUpTo(_, _)
ListsUpTo(S, n) ==
  IF n = 0 THEN {<<>>}
  ELSE LET shorter == ListsUpTo(S, n - 1)
       IN  shorter \cup {Append(l, x) : l \in shorter, x \in S}

Directions == {DIRS[i] : i \in 1..Len(DIRS)}

\* what a caller may put in a list of places: the directions and another word
Words == Directions \cup {"middle"}

RECURSIVE join(_, _)
\* list.join(sep) as a token sequence
join(list, sep) ==
  IF Len(list) = 0 THEN <<>>
  ELSE IF Len(list) = 1 THEN <<list[1]>>
  ELSE <<list[1]>> \o sep \o join(Tail(list), sep)

ArrayPlace(list) == [isString |-> FALSE, items |-> list]

StringPlace(tokens) == [isString |-> TRUE, str |-> tokens]

\* the DOM snapshots: a window of w x h, scrolled by s in both axes; quirks
\* mode scrolls the body, standards mode the document element; border is the
\* client border of the document element
Snapshot(w, h, s, quirks, border) ==
  [innerWidth |-> w, innerHeight |-> h,
   pageYOffset |-> s, pageXOffset |-> s,
   docScrollTop |-> IF quirks THEN 0 ELSE s,
   docScrollLeft |-> IF quirks THEN 0 ELSE s,
   bodyScrollTop |-> IF quirks THEN s ELSE 0,
   bodyScrollLeft |-> IF quirks THEN s ELSE 0,
   clientTop |-> border, clientLeft |-> border,
   ids |-> [id \in {"anchor"} |-> Element(4, 40, 20, 10)]]

Windows == {<<100, 100>>, <<20, 20>>, <<400, 400>>}

Doms ==
  {Snapshot(w[1], w[2], 0, FALSE, 0) : w \in Windows}
  \cup {Snapshot(w[1], w[2], 10, FALSE, 0) : w \in Windows}
  \cup {Snapshot(w[1], w[2], 10, TRUE, 0) : w \in Windows}
  \cup {Snapshot(w[1], w[2], 10, FALSE, 2) : w \in Windows}

PlainDom == Snapshot(100, 100, 0, FALSE, 0)

Contents == {Element(0, 0, 40, 20)}

Containers == {Element(0, 0, 60, 60), Element(20, 20, 200, 200)}

NoOrigin == [kind |-> "none"]

ElementOrigin(el) == [kind |-> "element", el |-> el]

IdOrigin(id) == [kind |-> "id", id |-> id]

\* a plain object with the fields x, y, top, left, width and height
ObjectOrigin(x, y, t, l, w, h) ==
  [kind |-> "object", x |-> x, y |-> y, top |-> t, left |-> l,
   width |-> w, height |-> h]

PointOrigin(x, y) ==
  ObjectOrigin(Num(x), Num(y), Undefined, Undefined, Undefined, Undefined)

RectOrigin(t, l, w, h) ==
  ObjectOrigin(Undefined, Undefined, Num(t), Num(l), Num(w), Num(h))

Origins ==
  {ElementOrigin(Element(4, 40, 20, 10)), ElementOrigin(Element(50, 50, 0, 0)),
   IdOrigin("anchor"), IdOrigin("missing"),
   PointOrigin(100, 100), PointOrigin(50, 10), RectOrigin(100, 100, 0, 0)}

Withins ==
  {[kind |-> "absent"], [kind |-> "function", returns |-> NoElement]}
  \cup {[kind |-> "function", returns |-> c] : c \in Containers}

PlaceLists == ListsUpTo(Words, MaxPlace)

Places ==
  {ArrayPlace(l) : l \in PlaceLists}
  \cup {StringPlace(join(l, <<",">>)) : l \in ListsUpTo(Directions, MaxPlace)}
  \cup {StringPlace(<<" ">> \o join(l, <<",", " ">>)) : l \in ListsUpTo(Directions, MaxPlace) \ {<<>>}}

\* props with the new origin property, and props with the legacy el property
AdjustProps ==
  {[place |-> p, auto |-> a, within |-> w, origin |-> o, el |-> NoOrigin] :
     p \in Places, a \in BOOLEAN, w \in Withins, o \in Origins}
  \cup {[place |-> ArrayPlace(<<"top", "bottom">>), auto |-> a, within |-> [kind |-> "absent"],
         origin |-> NoOrigin, el |-> ElementOrigin(Element(4, 40, 20, 10))] : a \in BOOLEAN}

CompleteArgs ==
  {ArrayPlace(l) : l \in ListsUpTo(Words, MaxDirs)}
  \cup {[isString |-> TRUE, str |-> w] : w \in Words}

Lengths == {Num(-10), Num(0), Num(30), Px(-10), Px(0), Px(30)}

Sizes == {Num(20), Px(20)}

\* partial rectangles: any subset of the six fields, numbers or pixel strings
PartialRects ==
  [top : Lengths \cup {Undefined}, left : Lengths \cup {Undefined},
   right : {Num(50), Px(50), Undefined}, bottom : {Num(50), Px(50), Undefined},
   width : Sizes \cup {Undefined}, height : Sizes \cup {Undefined}]

Rect(t, l, w, h) ==
  [top |-> Num(t), left |-> Num(l), right |-> Num(l + w), bottom |-> Num(t + h),
   width |-> Num(w), height |-> Num(h)]

Rects == {Rect(t, l, w, h) : t \in {0, 10, 30}, l \in {0, 10, 30},
                             w \in {0, 10, 20}, h \in {0, 10, 20}}

\* candidate tips, as placement returns them and with numeric fields
Tips ==
  [top : {Px(-10), Px(0), Px(20), Px(60), Px(80), Num(10), NaNPx, Undefined},
   left : {Px(-10), Px(0), Px(20), Px(60), Px(80), Undefined},
   right : {Undefined}, bottom : {Undefined},
   width : {Num(20), Num(40)}, height : {Num(20), Num(40)}]

NoReturn == [none |-> TRUE]

----------------------------------------------------------------------------
(* The calls *)

InitPosition ==
  /\ op = "position"
  /\ arg \in {NoElement, Element(4, 40, 20, 10), Element(50, 50, 0, 0)}
  /\ dom \in Doms

InitPlacement ==
  /\ op = "placement"
  /\ arg \in [place : Words, content : Contents, origin : Origins]
  /\ dom \in Doms

InitComplete == op = "complete" /\ arg \in CompleteArgs /\ dom = PlainDom

InitIntersection == op = "intersection" /\ arg \in [a : Rects, b : Rects] /\ dom = PlainDom

InitAmend == op = "amend" /\ arg \in PartialRects /\ dom = PlainDom

InitOverDirs ==
  /\ op = "overDirs"
  /\ arg \in [tip : Tips, el : {NoElement} \cup Containers]
  /\ dom \in Doms

InitAdjust ==
  /\ op = "adjust"
  /\ arg \in [content : Contents, props : AdjustProps]
  /\ dom \in Doms

Init ==
  /\ pc = "ready"
  /\ ret = NoReturn
  /\ \/ InitPosition
     \/ InitPlacement
     \/ InitComplete
     \/ InitIntersection
     \/ InitAmend
     \/ InitOverDirs
     \/ InitAdjust

Return(value) ==
  /\ ret' = value
  /\ pc' = "done"
  /\ UNCHANGED <<op, arg, dom>>

Position == pc = "ready" /\ op = "position" /\ Return(position(arg, dom))

Placement ==
  /\ pc = "ready" /\ op = "placement"
  /\ Return(placement(arg.place, arg.content, arg.origin, dom))

Complete == pc = "ready" /\ op = "complete" /\ Return(complete(arg))

Intersection == pc = "ready" /\ op = "intersection" /\ Return(intersection(arg.a, arg.b))

Amend == pc = "ready" /\ op = "amend" /\ Return(amend(arg))

OverDirs == pc = "ready" /\ op = "overDirs" /\ Return(overDirs(arg.tip, arg.el, dom))

\* adjust returns ret.value; the model keeps beside it the places tried and
\* the place the caller passed
Adjust ==
  /\ pc = "ready" /\ op = "adjust"
  /\ ret' = adjustRun(arg.content, arg.props, dom)
  /\ arg' = [arg EXCEPT !.props.place = placeAfter(arg.props, ret')]
  /\ pc' = "done"
  /\ UNCHANGED <<op, dom>>

Next ==
  \/ Position
  \/ Placement
  \/ Complete
  \/ Intersection
  \/ Amend
  \/ OverDirs
  \/ Adjust

Spec == Init /\ [][Next]_vars

----------------------------------------------------------------------------
(* Properties *)

Done(o) == pc = "done" /\ op = o

\* how many entries of list are x
Count(x, list) == Cardinality({i \in 1..Len(list) : list[i] = x})

\* the entries of a list, as a set
Entries(list) == {list[i] : i \in 1..Len(list)}

\* list starts with prefix
StartsWith(list, prefix) ==
  Len(prefix) <= Len(list) /\ SubSeq(list, 1, Len(prefix)) = prefix

\* the list complete was given
GivenDirs == IF arg.isString THEN <<arg.str>> ELSE arg.items

\* what the claims on complete promise of its result
CompleteContract ==
  /\ \A d \in Directions : Count(d, ret) = 1
  /\ StartsWith(ret, GivenDirs)
  /\ SubSeq(ret, Len(GivenDirs) + 1, Len(ret))
       = SelectSeq(DIRS, LAMBDA d : d \notin Entries(GivenDirs))

\* C3, as stated: for any input list, complete(list) holds each of the four
\* canonical directions exactly once, starts with the input list and appends
\* the missing directions in canonical order.
C3_AnyListOnce == Done("complete") => CompleteContract

\* C3, amended: the same, for every input list in which no canonical
\* direction occurs more than once (and for a single direction string).
C3_CompleteOnce ==
  (Done("complete") /\ \A d \in Directions : Count(d, GivenDirs) <= 1)
    => CompleteContract

\* complete(['left', 'top']) has run: two given entries kept, two appended
C3_Witness ==
  /\ Done("complete")
  /\ ~arg.isString
  /\ arg.items = <<"left", "top">>
  /\ ret = <<"left", "top", "right", "bottom">>

\* the number a field of a partial rectangle stands for
Parsed(x) == IF x.k = "string" THEN Num(x.v) ELSE x

\* C8: amend is idempotent, amend(amend(r)) = amend(r); after one application
\* top and left are numbers (0 when missing), string fields are parsed, and
\* right / bottom are left + width / top + height only when they were missing
\* and width / height are known.
C8_AmendIdempotent ==
  Done("amend") =>
    /\ amend(ret) = ret
    /\ ret.top = (IF arg.top = Undefined THEN Num(0) ELSE Parsed(arg.top))
    /\ ret.left = (IF arg.left = Undefined THEN Num(0) ELSE Parsed(arg.left))
    /\ ret.width = Parsed(arg.width)
    /\ ret.height = Parsed(arg.height)
    /\ ret.right = (IF arg.right # Undefined THEN Parsed(arg.right)
                    ELSE IF arg.width # Undefined
                      THEN Num(ret.left.v + ret.width.v) ELSE Undefined)
    /\ ret.bottom = (IF arg.bottom # Undefined THEN Parsed(arg.bottom)
                     ELSE IF arg.height # Undefined
                       THEN Num(ret.top.v + ret.height.v) ELSE Undefined)

\* amend has run on {left: '30px', width: '20px', bottom: 50}: top defaulted,
\* right derived, bottom kept
C8_Witness ==
  /\ Done("amend")
  /\ arg.top = Undefined /\ arg.left = Px(30) /\ arg.width = Px(20)
  /\ arg.right = Undefined /\ arg.bottom = Num(50) /\ arg.height = Num(20)
  /\ ret.top = Num(0) /\ ret.right = Num(50) /\ ret.bottom = Num(50)

Max(x, y) == IF x >= y THEN x ELSE y

Min(x, y) == IF x <= y THEN x ELSE y

\* C9: intersection(a, b) = intersection(b, a) field by field; top / left are
\* the max of the inputs' tops / lefts, right / bottom the min of their right /
\* bottom edges, width / height are right - left / bottom - top, negative when
\* the rectangles do not overlap on that axis.
C9_IntersectionSymmetric ==
  Done("intersection") =>
    LET a == arg.a
        b == arg.b
    IN  /\ ret = intersection(b, a)
        /\ ret.top = Num(Max(a.top.v, b.top.v))
        /\ ret.left = Num(Max(a.left.v, b.left.v))
        /\ ret.right = Num(Min(a.left.v + a.width.v, b.left.v + b.width.v))
        /\ ret.bottom = Num(Min(a.top.v + a.height.v, b.top.v + b.height.v))
        /\ ret.width = Num(ret.right.v - ret.left.v)
        /\ ret.height = Num(ret.bottom.v - ret.top.v)
        /\ (a.left.v + a.width.v < b.left.v => ret.width.v < 0)
        /\ (a.top.v + a.height.v < b.top.v => ret.height.v < 0)

\* intersection has run on two rectangles that overlap on neither axis
C9_Witness ==
  /\ Done("intersection")
  /\ arg.a = Rect(0, 0, 10, 10)
  /\ arg.b = Rect(30, 30, 20, 20)
  /\ ret.width = Num(-20)
  /\ ret.height = Num(-20)

\* C5: placement(place, content, origin) keeps a gap of 12 from a resolved
\* origin rectangle: 'top' and 'bottom' centre left on the origin, 'right' and
\* 'left' centre top; top is origin.top - content.height - 12 for 'top' and
\* origin.top + origin.height + 12 for 'bottom', left is origin.right + 12 for
\* 'right' and origin.left - content.width - 12 for 'left'.  top and left are
\* pixel strings, both set; width and height are the content's own numbers.
C5_PlacementFormulas ==
  LET o == originRect(arg.origin, dom)
      w == arg.content.width
      h == arg.content.height
      centredLeft == o.left.v + (o.width.v \div 2) - (w \div 2)
      centredTop == o.top.v + (o.height.v \div 2) - (h \div 2)
  IN  (/\ Done("placement")
       /\ arg.place \in Directions
       /\ \A f \in DOMAIN o : IsReal(o[f]))
      => /\ ret.width = Num(w)
         /\ ret.height = Num(h)
         /\ ret.top.k = "string" /\ ret.left.k = "string"
         /\ arg.place = "top" =>
              ret.left = Px(centredLeft) /\ ret.top = Px(o.top.v - h - 12)
         /\ arg.place = "bottom" =>
              ret.left = Px(centredLeft) /\ ret.top = Px(o.top.v + o.height.v + 12)
         /\ arg.place = "right" =>
              ret.top = Px(centredTop) /\ ret.left = Px(o.right.v + 12)
         /\ arg.place = "left" =>
              ret.top = Px(centredTop) /\ ret.left = Px(o.left.v - w - 12)

\* placement('top', content 40 x 20, element at (4, 40) of 20 x 10) has run in
\* a window scrolled by 10: left 50 + 10 - 20, top 14 - 20 - 12
C5_Witness ==
  /\ Done("placement")
  /\ arg.place = "top"
  /\ arg.origin = ElementOrigin(Element(4, 40, 20, 10))
  /\ dom.pageYOffset = 10 /\ dom.clientTop = 0
  /\ ret.left = Px(40) /\ ret.top = Px(-18)

\* position of direction d in DIRS
DirIndex(d) == CHOOSE i \in 1..Len(DIRS) : DIRS[i] = d

\* C6: overDirs(tip, el) is exactly the directions along which the amended tip
\* exceeds the reference area: 'top' iff tip.top < area.top, 'right' iff
\* tip.right > area.right, 'bottom' iff tip.bottom > area.bottom, 'left' iff
\* tip.left < area.left, in the order top, right, bottom, left, none twice; a
\* tip inside the area, edges touching included, gives the empty list.
C6_OverDirsExact ==
  Done("overDirs") =>
    LET tip == amend(arg.tip)
        area == referenceArea(arg.el, dom)
        Exceeds(d) ==
          IF d = "top" THEN IsReal(tip.top) /\ tip.top.v < area.top.v
          ELSE IF d = "right" THEN IsReal(tip.right) /\ tip.right.v > area.right.v
          ELSE IF d = "bottom" THEN IsReal(tip.bottom) /\ tip.bottom.v > area.bottom.v
          ELSE IsReal(tip.left) /\ tip.left.v < area.left.v
    IN  /\ \A d \in Directions : (d \in Entries(ret)) <=> Exceeds(d)
        /\ \A i \in 1..Len(ret) : ret[i] \in Directions
        /\ \A i, j \in 1..Len(ret) : i < j => DirIndex(ret[i]) < DirIndex(ret[j])
        /\ (/\ IsReal(tip.top) /\ IsReal(tip.left)
            /\ area.top.v <= tip.top.v /\ tip.bottom.v <= area.bottom.v
            /\ area.left.v <= tip.left.v /\ tip.right.v <= area.right.v)
           => ret = <<>>

\* overDirs has run on a tip whose top and right edges lie on the edges of an
\* unscrolled 100 x 100 window
C6_Witness ==
  /\ Done("overDirs")
  /\ ~arg.el.exists
  /\ dom.innerWidth = 100 /\ dom.pageYOffset = 0
  /\ arg.tip.top = Px(0) /\ arg.tip.left = Px(60) /\ arg.tip.width = Num(40)
  /\ ret = <<>>

\* the visible viewport: scroll offset plus window inner dimensions
Viewport == Rect(dom.pageYOffset, dom.pageXOffset, dom.innerWidth, dom.innerHeight)

\* props with no within accessor
WithoutWithin(props) == [props EXCEPT !.within = [kind |-> "absent"]]

\* C7: with a container the reference area is the intersection of the
\* viewport and the container's position, so a container never enlarges it:
\* every direction overflowing with no container overflows with any
\* container; with no container (within absent or returning nothing) the
\* reference area is the viewport alone.
C7_ContainerNarrows ==
  /\ Done("overDirs") =>
       LET area == referenceArea(arg.el, dom)
       IN  /\ ~arg.el.exists => area = Viewport
           /\ arg.el.exists =>
                /\ area = intersection(Viewport, position(arg.el, dom))
                /\ area.top.v >= Viewport.top.v /\ area.left.v >= Viewport.left.v
                /\ area.right.v <= Viewport.right.v
                /\ area.bottom.v <= Viewport.bottom.v
           /\ Entries(overDirs(arg.tip, NoElement, dom)) \subseteq Entries(ret)
  /\ (Done("adjust") /\ ~withinEl(arg.props).exists) =>
       ret.value = adjust(arg.content, WithoutWithin(arg.props), dom)

\* overDirs has run with a container wider than the window: the tip's right
\* edge is inside the container and past the window, and is reported
C7_Witness ==
  /\ Done("overDirs")
  /\ arg.el = Element(20, 20, 200, 200)
  /\ dom.innerWidth = 100 /\ dom.pageYOffset = 0
  /\ arg.tip.left = Px(80) /\ arg.tip.width = Num(40)
  /\ "right" \in Entries(ret)

\* the places the caller asked for, in order
GivenPlaces == normalize(ret.given)

\* the directions GivenPlaces lacks, in canonical order
MissingDirs == SelectSeq(DIRS, LAMBDA d : d \notin Entries(GivenPlaces))

\* the priority list adjust is to work through
TryOrder == IF arg.props.auto THEN GivenPlaces \o MissingDirs ELSE GivenPlaces

\* the offset placement computes for a place of the call
OffsetFor(place) == placement(place, arg.content, originOrEl(arg.props), dom)

\* an offset overflows the reference area of the call
Overflows(offset) == overDirs(offset, withinEl(arg.props), dom) # <<>>

\* C1: adjust goes through the normalized priority list in order and returns
\* the first direction whose placement has no overflow direction: for every
\* non-empty priority list, if the result does not overflow, its place is the
\* earliest entry of the list that does not overflow and its offset is the
\* placement computed for that entry.  When 'top' overflows and 'bottom' is
\* second and fits, the result's place is 'bottom'.
C1_FirstFit ==
  (Done("adjust") /\ Len(TryOrder) > 0) =>
    /\ ret.value.defined
    /\ ~Overflows(ret.value.offset) =>
         \E i \in 1..Len(TryOrder) :
           /\ ret.value.place = TryOrder[i]
           /\ ret.value.offset = OffsetFor(TryOrder[i])
           /\ ~Overflows(OffsetFor(TryOrder[i]))
           /\ \A j \in 1..(i - 1) : Overflows(OffsetFor(TryOrder[j]))
    /\ (/\ Len(TryOrder) >= 2
        /\ TryOrder[1] = "top" /\ TryOrder[2] = "bottom"
        /\ Overflows(OffsetFor("top")) /\ ~Overflows(OffsetFor("bottom")))
       => ret.value.place = "bottom"

\* adjust has run for a point near the top edge of a 100 x 100 window with
\* place ['top', 'bottom']: 'top' overflows and 'bottom' is returned
C1_Witness ==
  /\ Done("adjust")
  /\ arg.props.origin = PointOrigin(50, 10)
  /\ ret.given = ArrayPlace(<<"top", "bottom">>)
  /\ ~arg.props.auto
  /\ dom.innerWidth = 100
  /\ Overflows(OffsetFor("top"))
  /\ ret.tried = <<"top", "bottom">>
  /\ ret.value.place = "bottom"
  /\ ret.value.offset.top = Px(22)

\* C2: if every direction of the priority list overflows, adjust returns the
\* first attempt's result (the offset and place of the first direction tried),
\* not the last one and not an error; a placement request (a non-empty
\* priority list) never gets an absent result.
C2_FallbackIsFirst ==
  (Done("adjust") /\ Len(TryOrder) > 0) =>
    /\ ret.value.defined
    /\ (\A i \in 1..Len(TryOrder) : Overflows(OffsetFor(TryOrder[i])))
       => /\ ret.value.place = TryOrder[1]
          /\ ret.value.offset = OffsetFor(TryOrder[1])
          /\ ret.tried = TryOrder

\* adjust has run in a 20 x 20 window where 'bottom' and 'left' both
\* overflow: the result is the 'bottom' attempt, the first tried
C2_Witness ==
  /\ Done("adjust")
  /\ ret.given = ArrayPlace(<<"bottom", "left">>)
  /\ ~arg.props.auto
  /\ dom.innerWidth = 20
  /\ arg.props.origin = PointOrigin(50, 10)
  /\ \A i \in 1..Len(TryOrder) : Overflows(OffsetFor(TryOrder[i]))
  /\ ret.tried = <<"bottom", "left">>
  /\ ret.value.place = "bottom"
  /\ ret.value.offset = OffsetFor("bottom")
  /\ ret.value.offset # OffsetFor("left")

\* the end-to-end case of C4 for a given origin object: content 40 x 20,
\* place 'top', no container, a 400 x 400 window
EndToEndCase(origin) ==
  /\ Done("adjust")
  /\ arg.props.origin = origin
  /\ arg.content = Element(0, 0, 40, 20)
  /\ GivenPlaces = <<"top">>
  /\ ~withinEl(arg.props).exists
  /\ dom.innerWidth = 400 /\ dom.innerHeight = 400

EndToEndResult ==
  /\ ret.value.defined
  /\ ret.value.place = "top"
  /\ ret.value.offset.top = Px(68)
  /\ ret.value.offset.left = Px(80)

\* C4, as stated: an origin given as the rectangle object {top: 100,
\* left: 100, width: 0, height: 0} is used as it is: adjust returns place
\* 'top', offset.top '68px', offset.left '80px'.
C4_RectangleOrigin == EndToEndCase(RectOrigin(100, 100, 0, 0)) => EndToEndResult

\* C4, amended: an origin given as the point object {x: 100, y: 100} is used
\* as it is, without measurement (whatever the scroll position): adjust
\* returns place 'top', offset.top '68px', offset.left '80px'.
C4_PointOrigin == EndToEndCase(PointOrigin(100, 100)) => EndToEndResult

\* adjust has run on the point {x: 100, y: 100} in a scrolled window
C4_Witness ==
  /\ EndToEndCase(PointOrigin(100, 100))
  /\ dom.pageYOffset = 10
  /\ ret.value.offset.top = Px(68)

\* what C10 promises of a call with auto set and a non-empty list of
\* canonical directions
AutoContract ==
  /\ StartsWith(GivenPlaces \o MissingDirs, ret.tried)
  /\ Len(ret.tried) = Len(GivenPlaces \o MissingDirs)
       \/ ~Overflows(OffsetFor(ret.tried[Len(ret.tried)]))
  /\ \A d \in Directions : Count(d, ret.tried) <= 1
  /\ Len(ret.tried) <= 4
  /\ Overflows(ret.value.offset) => \A d \in Directions : Overflows(OffsetFor(d))

\* what C10 promises of every call with a non-empty priority list
EveryCallContract ==
  /\ ret.value.defined
  /\ ret.value.place \in Entries(ret.tried)
  /\ StartsWith(TryOrder, ret.tried)
  /\ arg.props.place = ret.given

AutoCase ==
  /\ Done("adjust")
  /\ arg.props.auto
  /\ Len(GivenPlaces) > 0
  /\ \A i \in 1..Len(GivenPlaces) : GivenPlaces[i] \in Directions

\* C10, as stated: with auto and a non-empty list (or comma-joined string) of
\* canonical directions, adjust tries the given directions in their order,
\* then the missing ones, each direction at most once and at most four in
\* all, so the result overflows only if all four directions do; in every case
\* the returned place is one of those tried, each entry costs at most one
\* placement and one overflow check, and the caller's list is left as it was.
C10_AutoTriesEachOnce ==
  /\ AutoCase => AutoContract
  /\ (Done("adjust") /\ Len(TryOrder) > 0) => EveryCallContract

\* C10, amended: the same, for a list in which no direction occurs twice.
C10_AutoTriesDistinct ==
  /\ (AutoCase /\ \A d \in Directions : Count(d, GivenPlaces) <= 1) => AutoContract
  /\ (Done("adjust") /\ Len(TryOrder) > 0) => EveryCallContract

\* adjust has run with auto and place 'left' in a 20 x 20 window: all four
\* directions were tried, 'left' first, and the 'left' attempt is returned
C10_Witness ==
  /\ Done("adjust")
  /\ arg.props.auto
  /\ ret.given = StringPlace(<<"left">>)
  /\ dom.innerWidth = 20
  /\ ret.tried = <<"left", "top", "right", "bottom">>
  /\ ret.value.place = "left"
  /\ Overflows(ret.value.offset)

====
